---- MODULE Spec2Model ----
(***************************************************************************)
(* Model of the sync orchestration engine of obsidian-git-sync:            *)
(*   SyncManager  (src/src/sync/sync-manager.ts)                           *)
(*   GitExecutor  (src/src/git/types.ts, second half of the file)          *)
(*   GitSyncPlugin command wrappers (src/unnamed/part_000)                 *)
(*                                                                         *)
(* JavaScript runs one callback at a time.  An async function runs without *)
(* interruption until it awaits a child process (execAsync); the callback  *)
(* that resumes it runs without interruption up to the next child process  *)
(* or to the function's return.  A task's pc therefore names the backend   *)
(* command the task is waiting for, and there is one action per await      *)
(* point: it takes the command's outcome, applies the command's effect on  *)
(* the repository and runs the code up to the next command or the return.  *)
(***************************************************************************)
EXTENDS Integers, Sequences, FiniteSets, TLC

\* ------------------------------------------------------------- bounds
MaxOps == 2        \* invocations after initialize() in one run; each commits
                   \* and stashes at most once, which bounds repo.ahead and repo.stash
MaxFaults == 1     \* commands that fail although they could succeed, in one run
MaxFiles == 1      \* files a pull's change summary may list
MaxLines == 2      \* file lines in the output of one status command
MaxStderr == 6     \* pieces of text in the error output of one failed push
MaxRemotes == 3    \* lines in the output of one remote listing
MaxTemplate == 6   \* pieces of text in the commit message template

\* Two invocations may be in progress at once.
Tasks == {1, 2}
Handles == 1..2

\* ------------------------------------------------------------- state
VARIABLES
  syncLock,          \* SyncManager.syncLock
  autoSyncInterval,  \* SyncManager.autoSyncInterval (0 = null)
  lastSyncTime,      \* SyncManager.lastSyncTime     (0 = null)
  lastSyncResult,    \* SyncManager.lastSyncResult
  settings,          \* plugin.settings: autoSync, autoPullOnStart
  timers,            \* interval timers armed in the host (window.setInterval)
  clock,             \* the host clock read by new Date()
  loaded,            \* onload has called initialize()
  ops,               \* invocations started after initialize()
  faults,            \* commands that failed although they could succeed
  repo,              \* the working directory and the backend tool
  tasks,             \* the async invocations in progress
  unloaded,          \* onunload has called dispose()
  saving,            \* a settings handler awaits saveSettings()
  stdout,            \* the output of a status command: its file lines
  parsed,            \* what status() made of stdout
  stderr,            \* the error text of a failed push
  pushError,         \* what parsePushError() made of stderr
  remotes,           \* the remote listing: its exit code and its lines
  remoteName,        \* what getRemoteName() returned
  template,          \* settings.commitMessage, the commit message template
  commitMessage      \* what generateCommitMessage() made of template

vars == <<syncLock, autoSyncInterval, lastSyncTime, lastSyncResult, settings,
          timers, clock, loaded, ops, faults, repo, tasks,
          unloaded, saving, stdout, parsed,
          stderr, pushError, remotes, remoteName, template, commitMessage>>

engine == <<syncLock, autoSyncInterval, lastSyncTime, lastSyncResult, timers, clock>>

\* The texts the pure helpers read and what they made of them.
texts == <<stderr, pushError, remotes, remoteName, template, commitMessage>>

\* The plugin's settings and life cycle, and the status parser's text.
host == <<settings, unloaded, saving, stdout, parsed, texts>>

\* The value of a result variable before its function has run.
Unset == "unset"

\* The message of a failed push: its category, and for a 'fatal:' line its text.
PushMessage(kind, text) == [kind |-> kind, text |-> text]

\* What run() got from a command (types.ts 88-103): the exit code and the
\* lines printed; here of a command that has printed nothing yet.
NoOutput == [code |-> 0, stdout |-> <<>>]

\* No push has failed yet.
NoPushError == PushMessage(Unset, <<>>)

\* GitStatus (types.ts 5-15): the lists of paths and the clean flag; status()
\* sets isRepo, which is FALSE here as long as nothing was parsed.
GitStatus(st, mo, un, cf, cl) ==
  [isRepo |-> TRUE, staged |-> st, modified |-> mo, untracked |-> un,
   conflicts |-> cf, clean |-> cl]
NoStatus == [GitStatus(<<>>, <<>>, <<>>, <<>>, FALSE) EXCEPT !.isRepo = FALSE]

\* ------------------------------------------------------------- results
\* SyncResult / PullResult / PushResult (types.ts 23-42).  Lists are kept by
\* their length.  msg "null" stands for the null reference.
Verdict(s, m, pl, ps, cf) ==
  [success |-> s, msg |-> m, pulled |-> pl, pushed |-> ps, conflicts |-> cf]

Null == Verdict(FALSE, "null", 0, 0, 0)
Raised == Verdict(FALSE, "raised", 0, 0, 0)

PullResult(s, m, f, c) == [success |-> s, msg |-> m, files |-> f, conflicts |-> c]
PushResult(s, m, p) == [success |-> s, msg |-> m, pushed |-> p]

\* ------------------------------------------------------------- tasks
\* The backend command a task waits for at each await point.
CmdOf(pc) ==
  CASE pc \in {"chk_version"} -> "version"
    [] pc \in {"chk_isRepo"} -> "rev-parse --is-inside-work-tree"
    [] pc \in {"sync_hasConflicts", "po_catch_hasConflicts",
               "pl_catch_hasConflicts", "pl_catch_conflictFiles"} -> "diff"
    [] pc \in {"po_remote", "po_fetch_remote", "pl_remote", "pl_fetch_remote",
               "ps_remote", "pu_remote"} -> "remote"
    [] pc \in {"po_fetch", "pl_fetch"} -> "fetch"
    [] pc \in {"po_status", "po_catch_status", "pl_status", "cp_status"} -> "status"
    [] pc \in {"pl_branch", "cp_up_branch", "ps_branch", "pu_branch"} -> "rev-parse HEAD"
    [] pc = "cp_up_upstream" -> "rev-parse @{upstream}"
    [] pc = "pl_stash" -> "stash push"
    [] pc = "pl_pull" -> "pull"
    [] pc = "pl_pop" -> "stash pop"
    [] pc = "cp_add" -> "add"
    [] pc = "cp_commit" -> "commit"
    [] pc = "ps_push" -> "push"
    [] pc = "pu_push" -> "push -u"
    [] OTHER -> "none"

IdleTask ==
  [kind |-> "none", pc |-> "idle", cmds |-> {}, events |-> <<>>,
   pull |-> "none", files |-> 0, fault |-> "none", verdict |-> Null]

Free(t) == tasks[t].kind = "none"
Running(t) == tasks[t].kind # "none" /\ tasks[t].pc # "done"
\* The lowest free slot: a new invocation takes it.
Slot(t) == Free(t) /\ \A u \in Tasks : u < t => ~Free(u)

\* updateStatus (sync-manager.ts 45-49): the callback receives the phase.
Emit(tk, phase) == [tk EXCEPT !.events = Append(@, phase)]

\* ------------------------------------------------------------- backend
\* run() (types.ts 88-103) resolves when the child process exits with 0 and
\* rejects otherwise (also on the 120 s timeout).  A command can succeed only
\* if the tool is present and, except for the version query, the working
\* directory is a repository; any command may fail.
CanSucceed(cmd) == repo.avail /\ (cmd = "version" \/ repo.isRepo)

\* The failures a task has met: "hard" once a command failed whose failure
\* the code reports, "soft" when only failures it absorbs have happened.
HardSteps == {"chk_version", "chk_isRepo", "cp_status", "cp_add", "cp_commit",
              "ps_branch", "pu_branch", "ps_push", "pu_push"}
\* A command resolves: ok needs the conditions under which it can succeed;
\* a failure under those conditions is a fault (a timeout, the network).
Outcome(ok, can) ==
  /\ ok => can
  /\ ~ok /\ can => faults < MaxFaults
  /\ faults' = IF ~ok /\ can THEN faults + 1 ELSE faults

Fault(tk) ==
  [tk EXCEPT !.fault = IF tk.pc \in HardSteps \/ @ = "hard" THEN "hard" ELSE "soft"]
\* commit()'s 'nothing to commit' (types.ts 282-284) is a failure it absorbs.
Absorbed(tk) == [tk EXCEPT !.fault = IF @ = "hard" THEN "hard" ELSE "soft"]


\* ------------------------------------------------------------- control flow
\* Each operator below is the code that runs after an await resumes, up to
\* the next await or the return.  It fixes tasks and the engine fields; the
\* action that uses it fixes repo.
Set(t, tk) == tasks' = [tasks EXCEPT ![t] = tk]

\* The task issues the command of pc and waits for it.
Await(t, tk, pc) ==
  /\ Set(t, [tk EXCEPT !.pc = pc, !.cmds = @ \cup {CmdOf(pc)}])
  /\ UNCHANGED engine

\* pullOnly, commitAndPush or initialize, called on its own, returns.
Done(t, tk, v) ==
  /\ Set(t, [tk EXCEPT !.pc = "done", !.verdict = v])
  /\ UNCHANGED engine

\* A sync() without the finally block would leave the lock as it was taken.
LockKept == TRUE

\* finally { this.syncLock = false } (sync-manager.ts 143-145)
LockAfterFinally == FALSE

\* A sync() that gave up automatic sync after a failed verdict.
SyncReturnDisarms(t, tk, v, record, stamp) ==
  /\ Set(t, [tk EXCEPT !.pc = "done", !.verdict = v])
  /\ syncLock' = LockAfterFinally
  /\ lastSyncResult' = IF record THEN v ELSE lastSyncResult
  /\ IF stamp
       THEN clock' = clock + 1 /\ lastSyncTime' = clock + 1
       ELSE UNCHANGED <<clock, lastSyncTime>>
  /\ timers' = IF v.success THEN timers ELSE {}
  /\ autoSyncInterval' = IF v.success THEN autoSyncInterval ELSE 0

\* A sync() that returned without the finally block: the lock stays taken.
SyncReturnLocked(t, tk, v, record, stamp) ==
  /\ Set(t, [tk EXCEPT !.pc = "done", !.verdict = v])
  /\ lastSyncResult' = IF record THEN v ELSE lastSyncResult
  /\ IF stamp
       THEN clock' = clock + 1 /\ lastSyncTime' = clock + 1
       ELSE UNCHANGED <<clock, lastSyncTime>>
  /\ UNCHANGED <<syncLock, autoSyncInterval, timers>>

\* sync() returns v through the finally block; record: the path assigned
\* lastSyncResult; stamp: the path assigned lastSyncTime.
SyncReturn(t, tk, v, record, stamp) ==
  /\ Set(t, [tk EXCEPT !.pc = "done", !.verdict = v])
  /\ syncLock' = LockAfterFinally
  /\ lastSyncResult' = IF record THEN v ELSE lastSyncResult
  /\ IF stamp
       THEN clock' = clock + 1 /\ lastSyncTime' = clock + 1
       ELSE UNCHANGED <<clock, lastSyncTime>>
  /\ UNCHANGED <<autoSyncInterval, timers>>

\* A sync() without the catch block would reject with the error.
SyncRethrow(t, tk) == SyncReturn(t, tk, Raised, FALSE, FALSE)

\* catch (error) in sync() (sync-manager.ts 138-142)
SyncCatch(t, tk) ==
  SyncReturn(t, Emit(tk, "error"), Verdict(FALSE, "error", 0, 0, 0), TRUE, FALSE)

\* sync() after commitAndPush resolved (sync-manager.ts 128-137)
SyncAfterPush(t, tk, res) ==
  IF res.success
    THEN SyncReturn(t, Emit(tk, "success"),
                    Verdict(TRUE, "Sync completed", tk.files, res.pushed, 0), TRUE, TRUE)
    ELSE SyncReturn(t, Emit(tk, "error"), Verdict(FALSE, res.msg, 0, 0, 0), TRUE, FALSE)

\* commitAndPush() returns res to its caller: sync(), or the plugin's
\* commitAndPush command (part_000 506-519).
CommitAndPushReturn(t, tk, res) ==
  IF tk.kind = "sync"
    THEN SyncAfterPush(t, tk, res)
    ELSE Done(t, tk, Verdict(res.success, res.msg, 0, res.pushed, 0))

\* catch (error) in commitAndPush() (sync-manager.ts 218-229); nothing: the
\* error's stdout includes 'nothing to commit'.
CommitAndPushCatch(t, tk, nothing) ==
  IF nothing
    THEN Await(t, tk, "ps_branch")
    ELSE CommitAndPushReturn(t, tk, PushResult(FALSE, "error", 0))

\* A start that armed a timer without cancelling the armed one.
StartAutoSyncOverlapping ==
  /\ timers' = timers \cup {CHOOSE x \in Handles : x \notin timers}
  /\ autoSyncInterval' = CHOOSE x \in Handles : x \notin timers

\* startAutoSync() (sync-manager.ts 249-263): the handle setInterval returns
\* is one no armed timer has.
StartAutoSync ==
  LET stopped == IF autoSyncInterval # 0 THEN timers \ {autoSyncInterval} ELSE timers
      h == CHOOSE x \in Handles : x \notin stopped
  IN /\ timers' = stopped \cup {h}
     /\ autoSyncInterval' = h

\* initialize() after the startup pull (sync-manager.ts 312-317)
InitAfterPull(t, tk) ==
  /\ Set(t, [Emit(tk, "idle") EXCEPT !.pc = "done"])
  /\ IF settings.autoSync THEN StartAutoSync ELSE UNCHANGED <<autoSyncInterval, timers>>
  /\ UNCHANGED <<syncLock, lastSyncTime, lastSyncResult, clock>>

\* The condition under which sync() stops after the pull (sync-manager.ts 118)
StopsAfterPull(res) == ~res.success /\ res.conflicts > 0

\* pullOnly() returns res to its caller: sync() (sync-manager.ts 116-126),
\* the plugin's pull command (part_000 488-501) or initialize() (306).
PullOnlyReturn(t, tk, res) ==
  CASE tk.kind = "sync" ->
         LET tk1 == [tk EXCEPT !.pull = IF res.success THEN "ok" ELSE "failed",
                               !.files = res.files]
         IN IF StopsAfterPull(res)
              THEN SyncReturn(t, Emit(tk1, "conflict"),
                     Verdict(FALSE, "Merge conflicts after pull", 0, 0, res.conflicts),
                     TRUE, FALSE)
              ELSE Await(t, Emit(tk1, "pushing"), "cp_status")
    [] tk.kind = "init" -> InitAfterPull(t, tk)
    [] OTHER -> Done(t, tk, Verdict(res.success, res.msg, res.files, 0, res.conflicts))

\* An initialize() without try/catch around the startup pull.
PullOnlyThrowUncaught(t, tk) ==
  CASE tk.kind = "sync" -> SyncCatch(t, [tk EXCEPT !.pull = "raised"])
    [] OTHER -> Done(t, tk, Raised)

\* pullOnly() rejects: sync() catches it (138), initialize() logs it (307),
\* the plugin's pull command lets it go (part_000 494).
PullOnlyThrow(t, tk) ==
  CASE tk.kind = "sync" -> SyncCatch(t, [tk EXCEPT !.pull = "raised"])
    [] tk.kind = "init" -> InitAfterPull(t, tk)
    [] OTHER -> Done(t, tk, Raised)

\* catch (error) in pullOnly() (sync-manager.ts 173-175)
PullOnlyCatch(t, tk) == Await(t, tk, "po_catch_hasConflicts")

\* catch (error) in GitExecutor.pull() (types.ts 325-327)
GitPullCatch(t, tk) == Await(t, tk, "pl_catch_hasConflicts")

\* An early return that recorded its verdict as the last result.
NotReadyRecorded(t, tk, msg) ==
  IF tk.kind = "sync"
    THEN SyncReturn(t, Emit(tk, "error"), Verdict(FALSE, msg, 0, 0, 0), TRUE, FALSE)
    ELSE Done(t, Emit(tk, "error"), Null)

\* A sync() that went on to the conflict probe without a usable repository.
NotReadyIgnored(t, tk, msg) ==
  IF tk.kind = "sync"
    THEN Await(t, tk, "sync_hasConflicts")
    ELSE Done(t, Emit(tk, "error"), Null)

\* checkGitStatus() found the tool missing or no repository:
\* sync() 98-106, initialize() 293-301.
NotReady(t, tk, msg) ==
  IF tk.kind = "sync"
    THEN SyncReturn(t, Emit(tk, "error"), Verdict(FALSE, msg, 0, 0, 0), FALSE, FALSE)
    ELSE Done(t, Emit(tk, "error"), Null)

\* What every task step leaves alone.
Frame == UNCHANGED <<host, loaded, ops>>

At(t, pc) == tasks[t].kind # "none" /\ tasks[t].pc = pc


\* ------------------------------------------------------------- entry points
NewTask(kind, pc) ==
  [IdleTask EXCEPT !.kind = kind, !.pc = pc, !.cmds = {CmdOf(pc)}]

\* A sync() that passed the lock check without setting the lock.
LockNotSet == FALSE

\* this.syncLock = true (sync-manager.ts 93)
LockAfterAcquire == TRUE

\* A busy return that went through the finally block would free the lock.
SyncBusyReleases(t) ==
  /\ Set(t, [NewTask("sync", "done") EXCEPT !.cmds = {},
               !.verdict = Verdict(FALSE, "Sync already in progress", 0, 0, 0)])
  /\ syncLock' = FALSE
  /\ UNCHANGED <<autoSyncInterval, lastSyncTime, lastSyncResult, timers, clock>>

\* sync() finds the lock held (sync-manager.ts 89-91)
SyncBusy(t) ==
  /\ Set(t, [NewTask("sync", "done") EXCEPT !.cmds = {},
               !.verdict = Verdict(FALSE, "Sync already in progress", 0, 0, 0)])
  /\ UNCHANGED engine

\* sync() takes the lock and calls checkGitStatus(), which starts the
\* version query (sync-manager.ts 93-97, 61-62; types.ts 108-110)
SyncStart(t) ==
  /\ syncLock' = LockAfterAcquire
  /\ Set(t, NewTask("sync", "chk_version"))
  /\ UNCHANGED <<autoSyncInterval, lastSyncTime, lastSyncResult, timers, clock>>

\* SyncManager.sync() up to its first await (sync-manager.ts 88-97)
SyncEnter(t) ==
  /\ IF syncLock THEN SyncBusy(t) ELSE SyncStart(t)
  /\ UNCHANGED <<repo, host, loaded, faults>>

\* One more invocation starts.
Started == ops < MaxOps /\ ops' = ops + 1

\* The interval callback (sync-manager.ts 255-259)
TimerTick ==
  /\ timers # {}
  /\ Started
  /\ \E t \in Tasks : Slot(t) /\ SyncEnter(t)

\* GitSyncPlugin.sync (part_000 469-476): the ribbon icon and the command
ManualSync ==
  /\ loaded /\ ~unloaded
  /\ IF syncLock
       THEN UNCHANGED vars
       ELSE Started /\ \E t \in Tasks : Slot(t) /\ SyncEnter(t)

\* GitSyncPlugin.pull (part_000 488-494)
ManualPull ==
  /\ loaded /\ ~unloaded
  /\ IF syncLock
       THEN UNCHANGED vars
       ELSE /\ Started
            /\ \E t \in Tasks : Slot(t) /\ Set(t, NewTask("pull", "po_remote"))
            /\ UNCHANGED <<engine, repo, host, loaded, faults>>

\* GitSyncPlugin.commitAndPush (part_000 506-512)
ManualCommitAndPush ==
  /\ loaded /\ ~unloaded
  /\ IF syncLock
       THEN UNCHANGED vars
       ELSE /\ Started
            /\ \E t \in Tasks : Slot(t) /\ Set(t, NewTask("push", "cp_status"))
            /\ UNCHANGED <<engine, repo, host, loaded, faults>>

\* stopAutoSync() (sync-manager.ts 268-273)
StopAutoSync ==
  /\ timers' = IF autoSyncInterval # 0 THEN timers \ {autoSyncInterval} ELSE timers
  /\ autoSyncInterval' = 0

\* restartAutoSync() (sync-manager.ts 278-285)
RestartAutoSync == IF settings.autoSync THEN StartAutoSync ELSE StopAutoSync

\* The automatic-sync toggle changes, up to its await of saveSettings()
\* (settings-tab.ts 61-63)
ToggleAutoSync ==
  /\ loaded /\ ~unloaded /\ ~saving
  /\ settings' = [settings EXCEPT !.autoSync = ~@]
  /\ saving' = TRUE
  /\ UNCHANGED <<engine, repo, tasks, loaded, ops, faults, unloaded, stdout, parsed, texts>>

\* The sync interval changes to a valid number, up to its await of
\* saveSettings() (settings-tab.ts 73-77); the interval's length is not kept.
ChangeInterval ==
  /\ loaded /\ ~unloaded /\ ~saving
  /\ saving' = TRUE
  /\ UNCHANGED <<engine, repo, tasks, loaded, ops, faults, settings, unloaded, stdout, parsed, texts>>

\* saveSettings() resolved: the handler calls restartAutoSync()
\* (settings-tab.ts 64, 78; sync-manager.ts 278-285)
SettingsSaved ==
  /\ saving
  /\ saving' = FALSE
  /\ RestartAutoSync
  /\ UNCHANGED <<syncLock, lastSyncTime, lastSyncResult, clock>>
  /\ UNCHANGED <<repo, tasks, loaded, ops, faults, settings, unloaded, stdout, parsed, texts>>

\* onunload calls dispose() (part_000 399-403; sync-manager.ts 323-325)
Dispose ==
  /\ loaded /\ ~unloaded
  /\ unloaded' = TRUE
  /\ StopAutoSync
  /\ UNCHANGED <<syncLock, lastSyncTime, lastSyncResult, clock>>
  /\ UNCHANGED <<repo, tasks, loaded, ops, faults, settings, saving, stdout, parsed, texts>>

\* onload calls initialize() (part_000 396; sync-manager.ts 290-291)
Initialize ==
  /\ ~loaded
  /\ loaded' = TRUE
  /\ \E t \in Tasks : Slot(t) /\ Set(t, NewTask("init", "chk_version"))
  /\ UNCHANGED <<engine, repo, host, ops, faults>>

\* The caller of a finished invocation takes its result
\* (part_000 476-482, 494-500, 512-518; sync-manager.ts 256-258).
Return(t) ==
  /\ At(t, "done")
  /\ Set(t, IdleTask)
  /\ UNCHANGED <<engine, repo, faults>>
  /\ Frame

\* ------------------------------------------------------------- checkGitStatus
\* isGitAvailable resolves (types.ts 108-115; sync-manager.ts 62-67)
CheckVersion(t) ==
  /\ At(t, "chk_version")
  /\ \E ok \in BOOLEAN :
       /\ Outcome(ok, CanSucceed("version"))
       /\ IF ok
            THEN Await(t, tasks[t], "chk_isRepo")
            ELSE NotReady(t, Fault(tasks[t]), "Git is not installed or not found in PATH")
  /\ UNCHANGED repo
  /\ Frame

\* isRepo resolves (types.ts 120-127); sync() goes on to hasConflicts (109),
\* initialize() to the startup pull (304-306)
CheckIsRepo(t) ==
  /\ At(t, "chk_isRepo")
  /\ \E ok \in BOOLEAN :
       /\ Outcome(ok, CanSucceed("rev-parse"))
       /\ IF ~ok
            THEN NotReady(t, Fault(tasks[t]),
                          "Not a git repository. Please initialize a git repository first.")
            ELSE IF tasks[t].kind = "sync"
              THEN Await(t, tasks[t], "sync_hasConflicts")
              ELSE IF settings.autoPullOnStart
                THEN Await(t, tasks[t], "po_remote")
                ELSE InitAfterPull(t, tasks[t])
  /\ UNCHANGED repo
  /\ Frame

\* A conflict probe that never reports a conflict.
NoConflictSeen(ok) == FALSE

\* hasConflicts() (types.ts 248-255): a failed query counts as no conflict.
HasConflicts(ok) == ok /\ repo.conflict

\* A remote query that always names a remote.
RemoteAssumed(ok) == TRUE

\* getRemoteName() (types.ts 147-155): a failed query counts as no remote.
HasRemoteName(ok) == ok /\ repo.remote

\* sync() after the conflict pre-check (sync-manager.ts 109-116)
SyncHasConflicts(t) ==
  /\ At(t, "sync_hasConflicts")
  /\ \E ok \in BOOLEAN :
       /\ Outcome(ok, CanSucceed("diff"))
       /\ LET tk == IF ok THEN tasks[t] ELSE Fault(tasks[t])
          IN IF HasConflicts(ok)
               THEN SyncReturn(t, Emit(tk, "conflict"),
                      Verdict(FALSE, "Merge conflicts detected. Please resolve them manually.", 0, 0, 0),
                      FALSE, FALSE)
               ELSE Await(t, Emit(tk, "pulling"), "po_remote")
  /\ UNCHANGED repo
  /\ Frame


\* ------------------------------------------------------------- status
\* A status() that never reports a clean tree.
NeverClean == FALSE

\* The fields of status() (types.ts 184-243) the engine reads.  Tracked
\* changes are staged or modified entries; conflicted entries are neither.
StatusClean == repo.tree = "clean" /\ ~repo.untracked /\ ~repo.conflict
StatusConflicts == IF repo.conflict THEN 1 ELSE 0
\* ahead and behind come from the branch line's [ahead n, behind m], which
\* is there only for a branch with an upstream (types.ts 192-195).
StatusAhead == IF repo.upstream THEN repo.ahead ELSE 0
StatusBehind == IF repo.upstream THEN repo.behind ELSE 0

\* ------------------------------------------------------------- pullOnly
\* getRemoteName() resolves in pullOnly (sync-manager.ts 154-160); with a
\* remote, fetch() starts with its own remote query (types.ts 175)
PullOnlyRemote(t) ==
  /\ At(t, "po_remote")
  /\ \E ok \in BOOLEAN :
       /\ Outcome(ok, CanSucceed("remote"))
       /\ LET tk == IF ok THEN tasks[t] ELSE Fault(tasks[t])
          IN IF HasRemoteName(ok)
               THEN Await(t, tk, "po_fetch_remote")
               ELSE PullOnlyReturn(t, tk,
                      PullResult(TRUE, "No remote configured, skipping pull", 0, 0))
  /\ UNCHANGED repo
  /\ Frame

\* fetch(): the remote query resolves (types.ts 174-179); without a remote
\* fetch() does nothing and pullOnly goes on to status() (163)
PullOnlyFetchRemote(t) ==
  /\ At(t, "po_fetch_remote")
  /\ \E ok \in BOOLEAN :
       /\ Outcome(ok, CanSucceed("remote"))
       /\ LET tk == IF ok THEN tasks[t] ELSE Fault(tasks[t])
          IN IF HasRemoteName(ok)
               THEN Await(t, tk, "po_fetch")
               ELSE Await(t, tk, "po_status")
  /\ UNCHANGED repo
  /\ Frame

\* A pullOnly() that went on to status() after a failed fetch.
PullOnlyFetchLenient(t) ==
  /\ At(t, "po_fetch")
  /\ \E ok \in BOOLEAN :
       /\ Outcome(ok, CanSucceed("fetch") /\ repo.remote)
       /\ Await(t, IF ok THEN tasks[t] ELSE Fault(tasks[t]), "po_status")
  /\ UNCHANGED repo
  /\ Frame

\* fetch(): the fetch command resolves (types.ts 177; sync-manager.ts 160-163)
PullOnlyFetch(t) ==
  /\ At(t, "po_fetch")
  /\ \E ok \in BOOLEAN :
       /\ Outcome(ok, CanSucceed("fetch") /\ repo.remote)
       /\ IF ok
            THEN Await(t, tasks[t], "po_status")
            ELSE PullOnlyCatch(t, Fault(tasks[t]))
  /\ UNCHANGED repo
  /\ Frame

\* status() resolves in pullOnly (sync-manager.ts 163-170); pull() starts
\* with getCurrentBranch() (types.ts 294)
PullOnlyStatus(t) ==
  /\ At(t, "po_status")
  /\ \E ok \in BOOLEAN :
       /\ Outcome(ok, CanSucceed("status"))
       /\ IF ~ok
            THEN PullOnlyCatch(t, Fault(tasks[t]))
            ELSE IF StatusBehind = 0
              THEN PullOnlyReturn(t, tasks[t], PullResult(TRUE, "Already up to date", 0, 0))
              ELSE Await(t, Emit(tasks[t], "pulling"), "pl_branch")
  /\ UNCHANGED repo
  /\ Frame

\* hasConflicts() resolves in pullOnly's catch (sync-manager.ts 175-181)
PullOnlyCatchHasConflicts(t) ==
  /\ At(t, "po_catch_hasConflicts")
  /\ \E ok \in BOOLEAN :
       /\ Outcome(ok, CanSucceed("diff"))
       /\ LET tk == IF ok THEN tasks[t] ELSE Fault(tasks[t])
          IN IF HasConflicts(ok)
               THEN Await(t, tk, "po_catch_status")
               ELSE PullOnlyThrow(t, tk)
  /\ UNCHANGED repo
  /\ Frame

\* getStatus() resolves in pullOnly's catch (sync-manager.ts 176-178); its
\* failure leaves the catch block as a rejection
PullOnlyCatchStatus(t) ==
  /\ At(t, "po_catch_status")
  /\ \E ok \in BOOLEAN :
       /\ Outcome(ok, CanSucceed("status"))
       /\ IF ok
            THEN PullOnlyReturn(t, Emit(tasks[t], "conflict"),
                   PullResult(FALSE, "Merge conflicts detected", 0, StatusConflicts))
            ELSE PullOnlyThrow(t, Fault(tasks[t]))
  /\ UNCHANGED repo
  /\ Frame

\* ------------------------------------------------------------- GitExecutor.pull
\* getCurrentBranch() resolves (types.ts 294-295)
GitPullBranch(t) ==
  /\ At(t, "pl_branch")
  /\ \E ok \in BOOLEAN :
       /\ Outcome(ok, CanSucceed("rev-parse"))
       /\ IF ok
            THEN Await(t, tasks[t], "pl_remote")
            ELSE GitPullCatch(t, Fault(tasks[t]))
  /\ UNCHANGED repo
  /\ Frame

\* getRemoteName() resolves (types.ts 295-302)
GitPullRemote(t) ==
  /\ At(t, "pl_remote")
  /\ \E ok \in BOOLEAN :
       /\ Outcome(ok, CanSucceed("remote"))
       /\ LET tk == IF ok THEN tasks[t] ELSE Fault(tasks[t])
          IN IF HasRemoteName(ok)
               THEN Await(t, tk, "pl_fetch_remote")
               ELSE PullOnlyReturn(t, tk, PullResult(FALSE, "No remote configured", 0, 0))
  /\ UNCHANGED repo
  /\ Frame

\* fetch(): the remote query resolves (types.ts 302, 174-179)
GitPullFetchRemote(t) ==
  /\ At(t, "pl_fetch_remote")
  /\ \E ok \in BOOLEAN :
       /\ Outcome(ok, CanSucceed("remote"))
       /\ LET tk == IF ok THEN tasks[t] ELSE Fault(tasks[t])
          IN IF HasRemoteName(ok)
               THEN Await(t, tk, "pl_fetch")
               ELSE Await(t, tk, "pl_status")
  /\ UNCHANGED repo
  /\ Frame

\* fetch(): the fetch command resolves (types.ts 177, 302-305)
GitPullFetch(t) ==
  /\ At(t, "pl_fetch")
  /\ \E ok \in BOOLEAN :
       /\ Outcome(ok, CanSucceed("fetch") /\ repo.remote)
       /\ IF ok
            THEN Await(t, tasks[t], "pl_status")
            ELSE GitPullCatch(t, Fault(tasks[t]))
  /\ UNCHANGED repo
  /\ Frame

\* A pull() that never stashed.
GitPullStatusNoStash(t) ==
  /\ At(t, "pl_status")
  /\ \E ok \in BOOLEAN :
       /\ Outcome(ok, CanSucceed("status"))
       /\ IF ~ok
            THEN GitPullCatch(t, Fault(tasks[t]))
            ELSE Await(t, tasks[t], "pl_pull")
  /\ UNCHANGED repo
  /\ Frame

\* status() resolves (types.ts 305-312): stash when staged or modified
\* entries exist
GitPullStatus(t) ==
  /\ At(t, "pl_status")
  /\ \E ok \in BOOLEAN :
       /\ Outcome(ok, CanSucceed("status"))
       /\ IF ~ok
            THEN GitPullCatch(t, Fault(tasks[t]))
            ELSE IF repo.tree # "clean"
              THEN Await(t, tasks[t], "pl_stash")
              ELSE Await(t, tasks[t], "pl_pull")
  /\ UNCHANGED repo
  /\ Frame

\* stash push resolves (types.ts 308-312)
GitPullStash(t) ==
  /\ At(t, "pl_stash")
  /\ \E ok \in BOOLEAN :
       /\ Outcome(ok, CanSucceed("stash"))
       /\ IF ok
            THEN /\ repo' = [repo EXCEPT !.tree = "clean", !.stash = @ + 1]
                 /\ Await(t, tasks[t], "pl_pull")
            ELSE /\ UNCHANGED repo
                 /\ GitPullCatch(t, Fault(tasks[t]))
  /\ Frame

\* pull --rebase resolves (types.ts 312-316): it integrates the remote
\* commits and lists n changed files, or stops on a conflict between local
\* and remote commits, or fails; it refuses to run over tracked changes.
GitPullPull(t) ==
  /\ At(t, "pl_pull")
  /\ \E out \in {"ok", "conflict", "fail"}, n \in 0..MaxFiles :
       /\ Outcome(out # "fail", CanSucceed("pull") /\ repo.remote
                                 /\ repo.tree = "clean" /\ ~repo.conflict)
       /\ out = "conflict" => repo.ahead > 0 /\ repo.behind > 0
       /\ out # "ok" => n = 0
       /\ CASE out = "ok" ->
                 /\ repo' = [repo EXCEPT !.behind = 0]
                 /\ Await(t, [tasks[t] EXCEPT !.files = n], "pl_pop")
            [] out = "conflict" ->
                 /\ repo' = [repo EXCEPT !.conflict = TRUE]
                 /\ GitPullCatch(t, Fault(tasks[t]))
            [] OTHER ->
                 /\ UNCHANGED repo
                 /\ GitPullCatch(t, Fault(tasks[t]))
  /\ Frame

\* stash pop resolves (types.ts 315-324): its failure is swallowed.  It
\* restores the top entry, or stops on a conflict and keeps the entry, or
\* fails (always when there is no entry).
GitPullPop(t) ==
  /\ At(t, "pl_pop")
  /\ \E out \in {"ok", "conflict", "fail"} :
       /\ Outcome(out # "fail", CanSucceed("stash") /\ repo.stash > 0)
       /\ repo' = CASE out = "ok" -> [repo EXCEPT !.tree = "modified", !.stash = @ - 1]
                    [] out = "conflict" -> [repo EXCEPT !.conflict = TRUE]
                    [] OTHER -> repo
       /\ PullOnlyReturn(t, IF out = "ok" THEN tasks[t] ELSE Fault(tasks[t]),
                         PullResult(TRUE, "Pull successful", tasks[t].files, 0))
  /\ Frame

\* hasConflicts() resolves in pull's catch (types.ts 327-337); without a
\* conflict the error goes to pullOnly's catch (sync-manager.ts 173)
GitPullCatchHasConflicts(t) ==
  /\ At(t, "pl_catch_hasConflicts")
  /\ \E ok \in BOOLEAN :
       /\ Outcome(ok, CanSucceed("diff"))
       /\ LET tk == IF ok THEN tasks[t] ELSE Fault(tasks[t])
          IN IF HasConflicts(ok)
               THEN Await(t, tk, "pl_catch_conflictFiles")
               ELSE PullOnlyCatch(t, tk)
  /\ UNCHANGED repo
  /\ Frame

\* getConflictFiles() resolves (types.ts 382-389, 328-334): a failed query
\* gives the empty list
GitPullCatchConflictFiles(t) ==
  /\ At(t, "pl_catch_conflictFiles")
  /\ \E ok \in BOOLEAN :
       /\ Outcome(ok, CanSucceed("diff"))
       /\ PullOnlyReturn(t, IF ok THEN tasks[t] ELSE Fault(tasks[t]),
            PullResult(FALSE, "Merge conflicts detected", 0,
                       IF ok THEN StatusConflicts ELSE 0))
  /\ UNCHANGED repo
  /\ Frame


\* ------------------------------------------------------------- commitAndPush
\* A commitAndPush() that staged and committed whatever status() reported.
CommitStatusStages(t) ==
  /\ At(t, "cp_status")
  /\ \E ok \in BOOLEAN :
       /\ Outcome(ok, CanSucceed("status"))
       /\ IF ~ok
            THEN CommitAndPushCatch(t, Fault(tasks[t]), FALSE)
            ELSE Await(t, tasks[t], "cp_add")
  /\ UNCHANGED repo
  /\ Frame

\* status() resolves in commitAndPush (sync-manager.ts 191-203); push()
\* starts with getCurrentBranch() (types.ts 346)
CommitStatus(t) ==
  /\ At(t, "cp_status")
  /\ \E ok \in BOOLEAN :
       /\ Outcome(ok, CanSucceed("status"))
       /\ IF ~ok
            THEN CommitAndPushCatch(t, Fault(tasks[t]), FALSE)
            ELSE IF StatusClean
              THEN IF StatusAhead > 0
                     THEN Await(t, Emit(tasks[t], "pushing"), "ps_branch")
                     ELSE CommitAndPushReturn(t, tasks[t],
                            PushResult(TRUE, "Nothing to commit or push", 0))
              ELSE Await(t, tasks[t], "cp_add")
  /\ UNCHANGED repo
  /\ Frame

\* add -A resolves (types.ts 260-262; sync-manager.ts 203-207): it stages
\* every change, unmerged entries included
CommitAdd(t) ==
  /\ At(t, "cp_add")
  /\ \E ok \in BOOLEAN :
       /\ Outcome(ok, CanSucceed("add"))
       /\ IF ok
            THEN /\ repo' = [repo EXCEPT
                       !.tree = IF StatusClean THEN "clean" ELSE "staged",
                       !.untracked = FALSE, !.conflict = FALSE]
                 /\ Await(t, tasks[t], "cp_commit")
            ELSE /\ UNCHANGED repo
                 /\ CommitAndPushCatch(t, Fault(tasks[t]), FALSE)
  /\ Frame

\* A commit() that raised on 'nothing to commit' as on any other failure,
\* with a caller that reported it.
CommitCommitStrict(t) ==
  /\ At(t, "cp_commit")
  /\ \E out \in {"ok", "nothing", "fail"} :
       /\ out = "ok" => repo.tree = "staged" /\ ~repo.conflict
       /\ out = "nothing" => StatusClean
       /\ Outcome(out # "fail", CanSucceed("commit") /\ (StatusClean \/
                     (repo.tree = "staged" /\ ~repo.conflict)))
       /\ CASE out = "ok" ->
                 /\ repo' = [repo EXCEPT !.tree = "clean", !.ahead = @ + 1]
                 /\ Await(t, tasks[t], "cp_up_branch")
            [] OTHER ->
                 /\ UNCHANGED repo
                 /\ CommitAndPushCatch(t, Fault(tasks[t]), FALSE)
  /\ Frame

\* commit resolves (types.ts 276-287; sync-manager.ts 207-210): it records
\* the staged changes; with a clean tree it fails printing 'nothing to
\* commit', which commit() turns into a success; hasUpstream() then starts
\* with getCurrentBranch() (types.ts 422)
CommitCommit(t) ==
  /\ At(t, "cp_commit")
  /\ \E out \in {"ok", "nothing", "fail"} :
       /\ out = "ok" => repo.tree = "staged" /\ ~repo.conflict
       /\ out = "nothing" => StatusClean
       /\ Outcome(out # "fail", CanSucceed("commit") /\ (StatusClean \/
                     (repo.tree = "staged" /\ ~repo.conflict)))
       /\ CASE out = "ok" ->
                 /\ repo' = [repo EXCEPT !.tree = "clean", !.ahead = @ + 1]
                 /\ Await(t, tasks[t], "cp_up_branch")
            [] out = "nothing" ->
                 /\ UNCHANGED repo
                 /\ Await(t, Absorbed(tasks[t]), "cp_up_branch")
            [] OTHER ->
                 /\ UNCHANGED repo
                 /\ CommitAndPushCatch(t, Fault(tasks[t]), FALSE)
  /\ Frame

\* hasUpstream(): getCurrentBranch() resolves (types.ts 420-427); any
\* failure means no upstream, and pushWithUpstream() starts (sync-manager.ts
\* 210-216; types.ts 365)
CommitUpstreamBranch(t) ==
  /\ At(t, "cp_up_branch")
  /\ \E ok \in BOOLEAN :
       /\ Outcome(ok, CanSucceed("rev-parse"))
       /\ IF ok
            THEN Await(t, tasks[t], "cp_up_upstream")
            ELSE Await(t, Emit(Fault(tasks[t]), "pushing"), "pu_branch")
  /\ UNCHANGED repo
  /\ Frame

\* hasUpstream(): the upstream query resolves (types.ts 423-426;
\* sync-manager.ts 210-217)
CommitUpstream(t) ==
  /\ At(t, "cp_up_upstream")
  /\ \E ok \in BOOLEAN :
       /\ Outcome(ok, CanSucceed("rev-parse") /\ repo.upstream)
       /\ IF ok
            THEN Await(t, Emit(tasks[t], "pushing"), "ps_branch")
            ELSE Await(t, Emit(Fault(tasks[t]), "pushing"), "pu_branch")
  /\ UNCHANGED repo
  /\ Frame

\* ------------------------------------------------------------- push
\* push() / pushWithUpstream(): getCurrentBranch() resolves (types.ts
\* 346-347, 365-366); a failure is caught and reported (355-357, 374-376)
PushBranch(t) ==
  /\ tasks[t].kind # "none" /\ tasks[t].pc \in {"ps_branch", "pu_branch"}
  /\ \E ok \in BOOLEAN :
       /\ Outcome(ok, CanSucceed("rev-parse"))
       /\ IF ok
            THEN Await(t, tasks[t], IF tasks[t].pc = "ps_branch" THEN "ps_remote" ELSE "pu_remote")
            ELSE CommitAndPushReturn(t, Fault(tasks[t]), PushResult(FALSE, "push error", 0))
  /\ UNCHANGED repo
  /\ Frame

\* A push that went on without looking at the remote name.
PushRemoteUnchecked(t) ==
  /\ tasks[t].kind # "none" /\ tasks[t].pc \in {"ps_remote", "pu_remote"}
  /\ \E ok \in BOOLEAN :
       /\ Outcome(ok, CanSucceed("remote"))
       /\ LET tk == IF ok THEN tasks[t] ELSE Fault(tasks[t])
          IN Await(t, tk, IF tk.pc = "ps_remote" THEN "ps_push" ELSE "pu_push")
  /\ UNCHANGED repo
  /\ Frame

\* getRemoteName() resolves (types.ts 347-353, 366-372)
PushRemote(t) ==
  /\ tasks[t].kind # "none" /\ tasks[t].pc \in {"ps_remote", "pu_remote"}
  /\ \E ok \in BOOLEAN :
       /\ Outcome(ok, CanSucceed("remote"))
       /\ LET tk == IF ok THEN tasks[t] ELSE Fault(tasks[t])
          IN IF HasRemoteName(ok)
               THEN Await(t, tk, IF tk.pc = "ps_remote" THEN "ps_push" ELSE "pu_push")
               ELSE CommitAndPushReturn(t, tk, PushResult(FALSE, "no remote", 0))
  /\ UNCHANGED repo
  /\ Frame

\* The push command resolves (types.ts 353-357, 372-376): the remote takes
\* the local commits; push -u also sets the upstream.
PushPush(t) ==
  /\ tasks[t].kind # "none" /\ tasks[t].pc \in {"ps_push", "pu_push"}
  /\ \E ok \in BOOLEAN :
       /\ Outcome(ok, CanSucceed("push") /\ repo.remote)
       /\ IF ok
            THEN /\ repo' = [repo EXCEPT !.ahead = 0,
                               !.upstream = @ \/ tasks[t].pc = "pu_push"]
                 /\ CommitAndPushReturn(t, tasks[t], PushResult(TRUE, "pushed", 1))
            ELSE /\ UNCHANGED repo
                 /\ CommitAndPushReturn(t, Fault(tasks[t]), PushResult(FALSE, "push error", 0))
  /\ Frame

\* ------------------------------------------------------------- specification
\* The working directories the plugin is loaded in.
Repo(av, rp, rm, up, tr, un, cf, ah, bh) ==
  [avail |-> av, isRepo |-> rp, remote |-> rm, upstream |-> up, tree |-> tr,
   untracked |-> un, conflict |-> cf, ahead |-> ah, behind |-> bh, stash |-> 0]

Repos ==
  { Repo(FALSE, FALSE, FALSE, FALSE, "clean", FALSE, FALSE, 0, 0),   \* no tool
    Repo(TRUE, FALSE, FALSE, FALSE, "clean", FALSE, FALSE, 0, 0),    \* no repository
    Repo(TRUE, TRUE, FALSE, FALSE, "modified", FALSE, FALSE, 0, 0),  \* local only
    Repo(TRUE, TRUE, TRUE, FALSE, "clean", TRUE, FALSE, 0, 0),       \* no upstream yet
    Repo(TRUE, TRUE, TRUE, TRUE, "clean", FALSE, FALSE, 0, 0),       \* in sync
    Repo(TRUE, TRUE, TRUE, TRUE, "modified", FALSE, FALSE, 1, 1),    \* diverged
    Repo(TRUE, TRUE, TRUE, TRUE, "staged", FALSE, TRUE, 1, 0) }      \* in conflict

Init ==
  /\ syncLock = FALSE
  /\ autoSyncInterval = 0
  /\ lastSyncTime = 0
  /\ lastSyncResult = Null
  /\ settings \in [autoSync : BOOLEAN, autoPullOnStart : BOOLEAN]
  /\ timers = {}
  /\ clock = 0
  /\ loaded = FALSE
  /\ ops = 0
  /\ faults = 0
  /\ repo \in Repos
  /\ tasks = [t \in Tasks |-> IdleTask]
  /\ unloaded = FALSE
  /\ saving = FALSE
  /\ stdout = <<>>
  /\ parsed = NoStatus
  /\ stderr = <<>>
  /\ pushError = NoPushError
  /\ remotes = NoOutput
  /\ remoteName = Unset
  /\ template = <<>>
  /\ commitMessage = <<Unset>>

TaskStep(t) ==
  \/ CheckVersion(t) \/ CheckIsRepo(t) \/ SyncHasConflicts(t)
  \/ PullOnlyRemote(t) \/ PullOnlyFetchRemote(t) \/ PullOnlyFetch(t)
  \/ PullOnlyStatus(t) \/ PullOnlyCatchHasConflicts(t) \/ PullOnlyCatchStatus(t)
  \/ GitPullBranch(t) \/ GitPullRemote(t) \/ GitPullFetchRemote(t)
  \/ GitPullFetch(t) \/ GitPullStatus(t) \/ GitPullStash(t) \/ GitPullPull(t)
  \/ GitPullPop(t) \/ GitPullCatchHasConflicts(t) \/ GitPullCatchConflictFiles(t)
  \/ CommitStatus(t) \/ CommitAdd(t) \/ CommitCommit(t)
  \/ CommitUpstreamBranch(t) \/ CommitUpstream(t)
  \/ PushBranch(t) \/ PushRemote(t) \/ PushPush(t)
  \/ Return(t)

Next ==
  \/ Initialize
  \/ TimerTick
  \/ ManualSync
  \/ ManualPull
  \/ ManualCommitAndPush
  \/ \E t \in Tasks : TaskStep(t)

Spec == Init /\ [][Next]_vars

\* ------------------------------------------------------------- status()
\* The characters of the two status columns of `status --porcelain=v1`.
Codes == {" ", "M", "T", "A", "D", "R", "C", "U", "?"}
CodePairs == (Codes \X Codes) \ {<<" ", " ">>}

\* The status command prints one more file line (types.ts 185-189, 204-207):
\* line[0], line[1] and line.substring(3); the path of the i-th line is i.
StatusLine ==
  /\ ~parsed.isRepo
  /\ Len(stdout) < MaxLines
  /\ \E p \in CodePairs :
       stdout' = Append(stdout, [x |-> p[1], y |-> p[2], path |-> Len(stdout) + 1])
  /\ UNCHANGED <<engine, repo, tasks, loaded, ops, faults, settings, unloaded, saving, parsed, texts>>

\* A conflict test that knows only the lines with U in both columns.
BothUnmerged(l) == l.x = "U" /\ l.y = "U"

\* The conflict states (types.ts 209-215)
IsConflictLine(l) ==
  \/ l.x = "U" \/ l.y = "U"
  \/ l.x = "A" /\ l.y = "A"
  \/ l.x = "D" /\ l.y = "D"

\* A staged test that knows added and modified entries only.
IsStagedAdded(l) == ~IsConflictLine(l) /\ l.x \in {"M", "A"}

\* Past the conflict test (the continue of types.ts 214): staged, modified
\* and untracked (types.ts 217-230)
IsStagedLine(l) == ~IsConflictLine(l) /\ l.x # " " /\ l.x # "?"
IsModifiedLine(l) == ~IsConflictLine(l) /\ l.y # " " /\ l.y # "?"
IsUntrackedLine(l) == ~IsConflictLine(l) /\ l.x = "?" /\ l.y = "?"

PathsOf(lines) == [i \in 1..Len(lines) |-> lines[i].path]

\* A clean flag that looks at the tracked changes only.
IsCleanTracked(st, mo, un, cf) == Len(st) = 0 /\ Len(mo) = 0

\* The clean flag (types.ts 241)
IsClean(st, mo, un, cf) == Len(st) = 0 /\ Len(mo) = 0 /\ Len(un) = 0 /\ Len(cf) = 0

\* status() on the file lines of its output (types.ts 197-242)
ParseStatus(lines) ==
  LET st == PathsOf(SelectSeq(lines, IsStagedLine))
      mo == PathsOf(SelectSeq(lines, IsModifiedLine))
      un == PathsOf(SelectSeq(lines, IsUntrackedLine))
      cf == PathsOf(SelectSeq(lines, IsConflictLine))
  IN GitStatus(st, mo, un, cf, IsClean(st, mo, un, cf))

\* status() returns what it parsed of the output.
Status ==
  /\ ~parsed.isRepo
  /\ parsed' = ParseStatus(stdout)
  /\ UNCHANGED <<engine, repo, tasks, loaded, ops, faults, settings, unloaded, saving, stdout, texts>>

\* status() has issued its command.
ParseInit ==
  /\ syncLock = FALSE
  /\ autoSyncInterval = 0
  /\ lastSyncTime = 0
  /\ lastSyncResult = Null
  /\ settings = [autoSync |-> FALSE, autoPullOnStart |-> TRUE]
  /\ timers = {}
  /\ clock = 0
  /\ loaded = FALSE
  /\ ops = 0
  /\ faults = 0
  /\ repo = Repo(TRUE, TRUE, TRUE, TRUE, "clean", FALSE, FALSE, 0, 0)
  /\ tasks = [t \in Tasks |-> IdleTask]
  /\ unloaded = FALSE
  /\ saving = FALSE
  /\ stdout = <<>>
  /\ parsed = NoStatus
  /\ stderr = <<>>
  /\ pushError = NoPushError
  /\ remotes = NoOutput
  /\ remoteName = Unset
  /\ template = <<>>
  /\ commitMessage = <<Unset>>

ParseNext == StatusLine \/ Status

ParseSpec == ParseInit /\ [][ParseNext]_vars

\* Every backend command returns or fails in the end: run() gives each
\* child process 120 s (types.ts 88-103), so a waiting invocation goes on.
\* The syncs of the timer and of the sync command, and nothing beside them.
SyncNext ==
  \/ Initialize
  \/ TimerTick
  \/ ManualSync
  \/ \E t \in Tasks : TaskStep(t)

FairSpec == Init /\ [][SyncNext]_vars /\ \A t \in Tasks : WF_vars(TaskStep(t))

\* The plugin left to its timer, with its settings tab in use, until it is
\* unloaded: every sync() is started by the interval callback.
LifeNext ==
  \/ Initialize
  \/ TimerTick
  \/ \E t \in Tasks : TaskStep(t)
  \/ ToggleAutoSync
  \/ ChangeInterval
  \/ SettingsSaved
  \/ Dispose

LifeSpec == Init /\ [][LifeNext]_vars


\* ------------------------------------------------------------- parsePushError
\* A text is a sequence of pieces; a piece is a stretch of characters in which
\* no searched text begins or ends, so that String.includes is the test for a
\* run of pieces.
Includes(s, pat) ==
  \E i \in 0..(Len(s) - Len(pat)) : SubSeq(s, i + 1, i + Len(pat)) = pat

\* The texts parsePushError() looks for (types.ts 539-563).
AuthenticationFailed == <<"Authentication failed">>
Forbidden == <<"403">>
UnableToAccess == <<"fatal:", " ", "unable to access">>
PublicKeyDenied == <<"Permission", " ", "denied", " ", "(publickey)">>
PermissionTo == <<"Permission", " ", "to">>
Denied == <<"denied">>
CouldNotResolveHost == <<"Could not resolve host">>
FatalMark == <<"fatal:">>
FatalPrefix == <<"fatal:", " ">>

\* What a failed push can print: the searched texts, line ends and other text.
ErrPhrases ==
  { AuthenticationFailed, Forbidden, UnableToAccess, PublicKeyDenied,
    PermissionTo, Denied, CouldNotResolveHost, FatalPrefix, <<"\n">>, <<"x">> }

\* stderr.split('\n').find(line => line.includes('fatal:')): the line of the
\* first 'fatal:' of the text.
FatalLine(s) ==
  LET i == CHOOSE k \in 1..Len(s) :
             s[k] = "fatal:" /\ \A j \in 1..(k - 1) : s[j] # "fatal:"
      before == {j \in 1..(i - 1) : s[j] = "\n"}
      after == {j \in (i + 1)..Len(s) : s[j] = "\n"}
      a == IF before = {} THEN 1
           ELSE 1 + CHOOSE j \in before : \A k \in before : k <= j
      b == IF after = {} THEN Len(s)
           ELSE (CHOOSE j \in after : \A k \in after : j <= k) - 1
  IN SubSeq(s, a, b)

\* String.replace with a text pattern: the first occurrence only.
ReplaceFirst(s, pat, val) ==
  IF ~Includes(s, pat) THEN s
  ELSE LET i == CHOOSE k \in 0..(Len(s) - Len(pat)) :
                  /\ SubSeq(s, k + 1, k + Len(pat)) = pat
                  /\ \A j \in 0..(k - 1) : SubSeq(s, j + 1, j + Len(pat)) # pat
       IN SubSeq(s, 1, i) \o val \o SubSeq(s, i + Len(pat) + 1, Len(s))

\* String.trim: the blanks at both ends go.
Trim(s) ==
  LET inked == {k \in 1..Len(s) : s[k] \notin {" ", "\n"}}
  IN IF inked = {} THEN <<>>
     ELSE SubSeq(s, CHOOSE k \in inked : \A j \in inked : k <= j,
                    CHOOSE k \in inked : \A j \in inked : j <= k)

\* parsePushError without its test for the SSH key.
ParsePushErrorKeyless(s) ==
  IF \/ Includes(s, AuthenticationFailed)
     \/ Includes(s, Forbidden)
     \/ Includes(s, UnableToAccess)
    THEN PushMessage("https credentials", <<>>)
  ELSE IF Includes(s, PermissionTo) /\ Includes(s, Denied)
    THEN PushMessage("no push permission", <<>>)
  ELSE IF Includes(s, CouldNotResolveHost)
    THEN PushMessage("network", <<>>)
  ELSE IF Includes(s, FatalMark)
    THEN PushMessage("fatal", Trim(ReplaceFirst(FatalLine(s), FatalPrefix, <<>>)))
  ELSE PushMessage("push failed", <<>>)

\* parsePushError (types.ts 535-569): the first test that matches decides.
ParsePushError(s) ==
  IF \/ Includes(s, AuthenticationFailed)
     \/ Includes(s, Forbidden)
     \/ Includes(s, UnableToAccess)
    THEN PushMessage("https credentials", <<>>)
  ELSE IF Includes(s, PublicKeyDenied)
    THEN PushMessage("ssh key", <<>>)
  ELSE IF Includes(s, PermissionTo) /\ Includes(s, Denied)
    THEN PushMessage("no push permission", <<>>)
  ELSE IF Includes(s, CouldNotResolveHost)
    THEN PushMessage("network", <<>>)
  ELSE IF Includes(s, FatalMark)
    THEN PushMessage("fatal", Trim(ReplaceFirst(FatalLine(s), FatalPrefix, <<>>)))
  ELSE PushMessage("push failed", <<>>)

\* The failed command prints another phrase.
StderrPhrase ==
  /\ pushError = NoPushError
  /\ \E ph \in ErrPhrases :
       /\ Len(stderr) + Len(ph) <= MaxStderr
       /\ stderr' = stderr \o ph
  /\ UNCHANGED <<engine, repo, tasks, loaded, ops, faults, settings, unloaded,
                 saving, stdout, parsed, pushError, remotes, remoteName,
                 template, commitMessage>>

\* push()'s catch block (types.ts 351-357) has the text classified.
PushFailed ==
  /\ pushError = NoPushError
  /\ pushError' = ParsePushError(stderr)
  /\ UNCHANGED <<engine, repo, tasks, loaded, ops, faults, settings, unloaded,
                 saving, stdout, parsed, stderr, remotes, remoteName,
                 template, commitMessage>>

PushErrorNext == StderrPhrase \/ PushFailed

PushErrorSpec == ParseInit /\ [][PushErrorNext]_vars

\* ------------------------------------------------------------- getRemoteName
\* A line of the remote listing: a remote's name, or nothing.
RemoteLines == {"origin", "origin2", "upstream", ""}

\* getRemoteName that took the first remote whatever its name.
GetFirstRemote(res) ==
  IF res.code # 0 THEN "null"
  ELSE LET names == SelectSeq(res.stdout, LAMBDA l : l # "")
       IN IF names # <<>> THEN names[1] ELSE "null"

\* getRemoteName (types.ts 147-155): the lines that are not empty are the
\* remotes; a listing that failed is caught.
GetRemoteName(res) ==
  IF res.code # 0 THEN "null"
  ELSE LET names == SelectSeq(res.stdout, LAMBDA l : l # "")
       IN IF \E i \in 1..Len(names) : names[i] = "origin" THEN "origin"
          ELSE IF names # <<>> THEN names[1] ELSE "null"

\* The remote listing prints another line.
RemoteLine ==
  /\ remoteName = Unset /\ remotes.code = 0
  /\ Len(remotes.stdout) < MaxRemotes
  /\ \E l \in RemoteLines : remotes' = [remotes EXCEPT !.stdout = Append(@, l)]
  /\ UNCHANGED <<engine, repo, tasks, loaded, ops, faults, settings, unloaded,
                 saving, stdout, parsed, stderr, pushError, remoteName,
                 template, commitMessage>>

\* The remote listing exits with an error: run() rejects (types.ts 96-98).
RemoteFails ==
  /\ remoteName = Unset /\ remotes.code = 0
  /\ remotes' = [remotes EXCEPT !.code = 1]
  /\ UNCHANGED <<engine, repo, tasks, loaded, ops, faults, settings, unloaded,
                 saving, stdout, parsed, stderr, pushError, remoteName,
                 template, commitMessage>>

\* getRemoteName() returns.
RemoteNamed ==
  /\ remoteName = Unset
  /\ remoteName' = GetRemoteName(remotes)
  /\ UNCHANGED <<engine, repo, tasks, loaded, ops, faults, settings, unloaded,
                 saving, stdout, parsed, stderr, pushError, remotes,
                 template, commitMessage>>

RemoteNext == RemoteLine \/ RemoteFails \/ RemoteNamed

RemoteSpec == ParseInit /\ [][RemoteNext]_vars

\* ------------------------------------------------------------- generateCommitMessage
\* The tokens of the template (part_002 19-23), in pieces: "datetime" is
\* "date" followed by "time", "timestamp" is "time" followed by "stamp".
DateToken == <<"{{", "date", "}}">>
DateTimeToken == <<"{{", "date", "time", "}}">>
TimestampToken == <<"{{", "time", "stamp", "}}">>
IsoDateToken == <<"{{", "isoDate", "}}">>
TimeToken == <<"{{", "time", "}}">>

\* What a template is written with: the tokens, their parts and other text.
TemplatePhrases ==
  { DateToken, DateTimeToken, TimestampToken, IsoDateToken, TimeToken,
    <<"{{">>, <<"}}">>, <<"date">>, <<"time">>, <<"x">> }

\* now = new Date() (part_002 16) as its three renderings: toISOString(),
\* getTime().toString() and toTimeString().
NowIso == <<"2026-11-02", "T", "10:00:00", ".", "000Z">>
NowMillis == <<"1793613600000">>
NowTime == <<"10:00:00", " ", "GMT+0000">>

\* replace(/\..+/, ''): the text from the first dot that has text after it.
DropFraction(s) ==
  LET dots == {k \in 1..(Len(s) - 1) : s[k] = "."}
  IN IF dots = {} THEN s
     ELSE SubSeq(s, 1, (CHOOSE k \in dots : \A j \in dots : k <= j) - 1)

\* formatDate (part_002 8-10)
FormatDate(iso) == DropFraction(ReplaceFirst(iso, <<"T">>, <<" ">>))

\* split(' ')[0]: the text before the first blank.
FirstWord(s) ==
  LET blanks == {k \in 1..Len(s) : s[k] = " "}
  IN IF blanks = {} THEN s
     ELSE SubSeq(s, 1, (CHOOSE k \in blanks : \A j \in blanks : k <= j) - 1)

\* String.replace with a /.../g pattern: every occurrence, from the left,
\* none overlapping another.
RECURSIVE ReplaceAll(_, _, _)
ReplaceAll(s, pat, val) ==
  IF Len(s) < Len(pat) THEN s
  ELSE IF SubSeq(s, 1, Len(pat)) = pat
    THEN val \o ReplaceAll(SubSeq(s, Len(pat) + 1, Len(s)), pat, val)
    ELSE <<s[1]>> \o ReplaceAll(Tail(s), pat, val)

\* generateCommitMessage with patterns without the g flag.
GenerateCommitMessageOnce(tpl) ==
  LET p1 == ReplaceFirst(tpl, DateToken, FormatDate(NowIso))
      p2 == ReplaceFirst(p1, DateTimeToken, FormatDate(NowIso))
      p3 == ReplaceFirst(p2, TimestampToken, NowMillis)
      p4 == ReplaceFirst(p3, IsoDateToken, NowIso)
  IN ReplaceFirst(p4, TimeToken, FirstWord(NowTime))

\* generateCommitMessage (part_002 15-24): five passes over the template.
GenerateCommitMessage(tpl) ==
  LET p1 == ReplaceAll(tpl, DateToken, FormatDate(NowIso))
      p2 == ReplaceAll(p1, DateTimeToken, FormatDate(NowIso))
      p3 == ReplaceAll(p2, TimestampToken, NowMillis)
      p4 == ReplaceAll(p3, IsoDateToken, NowIso)
  IN ReplaceAll(p4, TimeToken, FirstWord(NowTime))

\* The user types more of the template (settings.commitMessage).
TemplatePhrase ==
  /\ commitMessage = <<Unset>>
  /\ \E ph \in TemplatePhrases :
       /\ Len(template) + Len(ph) <= MaxTemplate
       /\ template' = template \o ph
  /\ UNCHANGED <<engine, repo, tasks, loaded, ops, faults, settings, unloaded,
                 saving, stdout, parsed, stderr, pushError, remotes, remoteName,
                 commitMessage>>

\* commitAndPush() has the message made (sync-manager.ts 206).
MessageGenerated ==
  /\ commitMessage = <<Unset>>
  /\ commitMessage' = GenerateCommitMessage(template)
  /\ UNCHANGED <<engine, repo, tasks, loaded, ops, faults, settings, unloaded,
                 saving, stdout, parsed, stderr, pushError, remotes, remoteName,
                 template>>

MessageNext == TemplatePhrase \/ MessageGenerated

MessageSpec == ParseInit /\ [][MessageNext]_vars

\* ------------------------------------------------------------- claims
IsSync(t) == tasks[t].kind = "sync"
Busy == Verdict(FALSE, "Sync already in progress", 0, 0, 0)
\* Task t takes a step.
Steps(t) == tasks'[t] # tasks[t]
\* Task t returns in this step.
Finishes(t) == Running(t) /\ tasks'[t].pc = "done"
\* sync() is entered in this step, in slot t.
SyncEntered(t) == Free(t) /\ tasks'[t].kind = "sync"
\* A top-level operation is executing: sync, pullOnly or commitAndPush; of
\* initialize(), the startup pull.
Executing(t) ==
  /\ Running(t)
  /\ tasks[t].kind = "init" => tasks[t].pc \notin {"chk_version", "chk_isRepo"}
SyncCmds == {"fetch", "pull", "stash push", "stash pop", "add", "commit", "push", "push -u"}
PushCmds == {"add", "commit", "push", "push -u"}
CommitAndPushPcs ==
  {"cp_status", "cp_add", "cp_commit", "cp_up_branch", "cp_up_upstream",
   "ps_branch", "ps_remote", "ps_push", "pu_branch", "pu_remote", "pu_push"}
LastEvent(t) == tasks[t].events[Len(tasks[t].events)]

\* C1 (as claimed): at most one of pullOnly, commitAndPush and sync is
\* executing at a time, so at most one backend command is in flight.
C1_SingleFlight == Cardinality({t \in Tasks : Executing(t)}) <= 1

\* C2: there is never a state in which two sync() executions are both past
\* the lock check.
C2_AtomicAcquire == Cardinality({t \in Tasks : IsSync(t) /\ Running(t)}) <= 1

\* A sync() is past the lock check while another sync() has been turned away.
C2_Witness ==
  \E t, u \in Tasks :
    /\ IsSync(t) /\ Running(t)
    /\ IsSync(u) /\ tasks[u].pc = "done" /\ tasks[u].verdict = Busy

\* C3: a sync() entered while the lock is held returns the busy verdict at
\* once, having issued no command and emitted no status, and leaves
\* lastSyncTime, lastSyncResult, the timer handle, the armed timers, the
\* repository, the other invocation and the lock (still held) as they were.
C3_BusyFrame ==
  [][\A t \in Tasks :
       SyncEntered(t) /\ syncLock =>
         /\ tasks'[t].pc = "done"
         /\ tasks'[t].verdict = Busy
         /\ tasks'[t].cmds = {}
         /\ tasks'[t].events = <<>>
         /\ syncLock'
         /\ UNCHANGED <<lastSyncTime, lastSyncResult, autoSyncInterval, timers, repo>>
         /\ \A u \in Tasks \ {t} : tasks'[u] = tasks[u]]_vars

\* A timer tick was turned away while a sync holds the lock and the timer
\* stays armed.
C3_Witness ==
  /\ syncLock
  /\ autoSyncInterval # 0
  /\ \E t \in Tasks : IsSync(t) /\ tasks[t].pc = "done" /\ tasks[t].verdict = Busy

\* C4: the lock is held iff exactly one sync() is between its acquire and
\* its return.
C4_LockIffSyncRunning ==
  syncLock <=> Cardinality({t \in Tasks : IsSync(t) /\ Running(t)}) = 1

\* A sync() has returned through its catch block and the lock is free.
C4_Witness ==
  /\ ~syncLock
  /\ \E t \in Tasks : IsSync(t) /\ tasks[t].pc = "done" /\ tasks[t].verdict.msg = "error"

\* C5: when the conflict probe at the entry of sync() reports unmerged
\* paths, sync() returns a failed verdict with the conflict status and has
\* issued no fetch, pull, stash, stage, commit or push.
C5_PreConflictStops ==
  [][\A t \in Tasks :
       At(t, "sync_hasConflicts") /\ Steps(t) /\ repo.conflict /\ tasks'[t].fault = "none" =>
         /\ tasks'[t].pc = "done"
         /\ ~tasks'[t].verdict.success
         /\ tasks'[t].verdict.msg = "Merge conflicts detected. Please resolve them manually."
         /\ tasks'[t].events = <<"conflict">>
         /\ tasks'[t].cmds \cap SyncCmds = {}
         /\ repo' = repo]_vars

\* A sync() has returned the pre-existing-conflict verdict on a repository
\* with unmerged paths.
C5_Witness ==
  \E t \in Tasks :
    /\ IsSync(t) /\ tasks[t].pc = "done" /\ repo.conflict
    /\ tasks[t].verdict.msg = "Merge conflicts detected. Please resolve them manually."
    /\ tasks[t].cmds = {"version", "rev-parse --is-inside-work-tree", "diff"}

\* C6 (as claimed): a sync() whose pull-only did not succeed, by a failed
\* result or by raising, has issued no stage, commit or push command.
C6_NoPushAfterFailedPull ==
  \A t \in Tasks :
    IsSync(t) /\ tasks[t].pull \in {"failed", "raised"} => tasks[t].cmds \cap PushCmds = {}

\* C7 (as claimed): a sync() that returns from anywhere but the resolution
\* of commit-and-push leaves lastSyncTime and lastSyncResult as they were.
C7_RecordsOnlyAfterPush ==
  [][\A t \in Tasks :
       IsSync(t) /\ Finishes(t) /\ tasks[t].pc \notin CommitAndPushPcs =>
         UNCHANGED <<lastSyncTime, lastSyncResult>>]_vars

\* C7 (amended): lastSyncTime is set only when commit-and-push resolved with
\* success.  lastSyncResult keeps its value on the busy, unavailable,
\* not-a-repository and pre-existing-conflict returns, and takes the
\* returned verdict on every other return: conflict after pull, thrown
\* error, and commit-and-push resolved either way.
C7_Records ==
  [][\A t \in Tasks :
       /\ SyncEntered(t) /\ tasks'[t].pc = "done" => UNCHANGED <<lastSyncTime, lastSyncResult>>
       /\ IsSync(t) /\ Finishes(t) =>
            /\ lastSyncTime' # lastSyncTime <=>
                 tasks[t].pc \in CommitAndPushPcs /\ tasks'[t].verdict.success
            /\ IF tasks[t].pc \in {"chk_version", "chk_isRepo", "sync_hasConflicts"}
                 THEN lastSyncResult' = lastSyncResult
                 ELSE lastSyncResult' = tasks'[t].verdict]_vars

\* A sync() stopped on a conflict after the pull: the verdict is recorded
\* as the last result and no sync time is.
C7_Witness ==
  \E t \in Tasks :
    /\ IsSync(t) /\ tasks[t].pc = "done"
    /\ tasks[t].verdict.msg = "Merge conflicts after pull"
    /\ lastSyncResult = tasks[t].verdict
    /\ lastSyncTime = 0

\* C8: when the backend tool is missing or the directory is not a
\* repository, the availability probe of sync() ends it with a failed
\* verdict; it has issued no init, fetch, pull, stage, commit or push, and
\* the lock is released.
C8_NotReadyStops ==
  [][\A t \in Tasks :
       /\ IsSync(t) /\ Steps(t)
       /\ \/ At(t, "chk_version") /\ ~repo.avail
          \/ At(t, "chk_isRepo") /\ ~repo.isRepo
       => /\ tasks'[t].pc = "done"
          /\ ~tasks'[t].verdict.success
          /\ tasks'[t].verdict.msg \in
               {"Git is not installed or not found in PATH",
                "Not a git repository. Please initialize a git repository first."}
          /\ tasks'[t].events = <<"error">>
          /\ tasks'[t].cmds \subseteq {"version", "rev-parse --is-inside-work-tree"}
          /\ ~syncLock'
          /\ repo' = repo]_vars

\* A sync() has returned the not-a-repository verdict where the tool is
\* installed and the directory is no repository.
C8_Witness ==
  /\ repo.avail /\ ~repo.isRepo /\ ~syncLock
  /\ \E t \in Tasks :
       /\ IsSync(t) /\ tasks[t].pc = "done"
       /\ tasks[t].verdict.msg = "Not a git repository. Please initialize a git repository first."

C10_NoRemoteSkipsPull ==
  ~repo.remote =>
    \A t \in Tasks :
      /\ tasks[t].cmds \cap {"fetch", "stash push", "stash pop", "pull"} = {}
      /\ tasks[t].kind = "pull" /\ tasks[t].pc = "done" =>
           tasks[t].verdict = Verdict(TRUE, "No remote configured, skipping pull", 0, 0, 0)
      /\ IsSync(t) => tasks[t].pull \in {"none", "ok"}

\* The pull command has returned on a repository without a remote.
C10_Witness ==
  /\ repo.isRepo /\ ~repo.remote
  /\ \E t \in Tasks :
       /\ tasks[t].kind = "pull" /\ tasks[t].pc = "done"
       /\ tasks[t].verdict.success
       /\ "remote" \in tasks[t].cmds

\* C11: commitAndPush() called on its own on a clean repository that is not
\* ahead of its upstream returns success with pushed = 0, has issued the
\* status query and nothing else, and leaves the repository as it was, so
\* that the next call finds the same repository and does the same.
C11_CleanIsNoOp ==
  [][\A t \in Tasks :
       /\ At(t, "cp_status") /\ tasks[t].kind = "push" /\ Steps(t)
       /\ repo.tree = "clean" /\ ~repo.untracked /\ ~repo.conflict
       /\ repo.upstream => repo.ahead = 0
       /\ tasks'[t].fault = "none"
       => /\ tasks'[t].pc = "done"
          /\ tasks'[t].verdict = Verdict(TRUE, "Nothing to commit or push", 0, 0, 0)
          /\ tasks'[t].cmds = {"status"}
          /\ repo' = repo]_vars

\* Two calls of commitAndPush() have both returned 'Nothing to commit or
\* push' on a clean repository.
C11_Witness ==
  /\ repo.tree = "clean" /\ ~repo.untracked /\ ~repo.conflict /\ repo.ahead = 0
  /\ \A t \in Tasks :
       /\ tasks[t].kind = "push" /\ tasks[t].pc = "done"
       /\ tasks[t].verdict = Verdict(TRUE, "Nothing to commit or push", 0, 0, 0)

\* The pull inside task t has returned success in this step.
PullSucceeds(t) ==
  \/ tasks[t].kind = "pull" /\ tasks'[t].pc = "done" /\ tasks'[t].verdict.success
  \/ tasks[t].kind = "sync" /\ tasks'[t].pull = "ok"

\* C12 (as claimed): when stash pop fails or stops on a conflict, so that the
\* stashed changes are not restored, pull() does not return success.
C12_FailedPopIsConflict ==
  [][\A t \in Tasks :
       At(t, "pl_pop") /\ Steps(t) /\ repo.stash > 0 /\ repo'.stash = repo.stash
         => ~PullSucceeds(t)]_vars

\* The steps of GitExecutor.pull().
PullPcs ==
  {"pl_branch", "pl_remote", "pl_fetch_remote", "pl_fetch", "pl_status", "pl_stash",
   "pl_pull", "pl_pop", "pl_catch_hasConflicts", "pl_catch_conflictFiles"}

\* C13 (as claimed): a pull() that stashed the local changes (the stash
\* succeeded and the pull command was issued) has issued stash pop by the
\* time it returns or raises.
C13_StashRestored ==
  [][\A t \in Tasks :
       /\ tasks[t].pc \in PullPcs /\ tasks'[t].pc \notin PullPcs
       /\ {"stash push", "pull"} \subseteq tasks[t].cmds
       => "stash pop" \in tasks'[t].cmds]_vars

\* C14: at most one recurring timer is armed, and the stored handle is the
\* handle of the armed timer: no handle is stored iff no timer is armed.
C14_OneTimer ==
  timers = IF autoSyncInterval = 0 THEN {} ELSE {autoSyncInterval}

\* A settings change has armed the timer while initialize() is still
\* running, which will start the timer again when it ends.
C14_Witness ==
  /\ timers = {autoSyncInterval}
  /\ \E t \in Tasks : tasks[t].kind = "init" /\ Running(t)

\* C15: every tick of the armed timer invokes sync(), which gets past the
\* lock check whenever the lock is free; whatever verdict a timer-triggered
\* sync() returns, it returns it (it does not reject), the timer and its
\* handle are as they were, and the lock is free for the next tick.
C15_TimerSurvives ==
  [][/\ ops' = ops + 1 =>
          \E t \in Tasks : SyncEntered(t) /\ (syncLock \/ tasks'[t].pc = "chk_version")
     /\ \A t \in Tasks :
          /\ SyncEntered(t) => UNCHANGED <<timers, autoSyncInterval>>
          /\ IsSync(t) /\ Finishes(t) =>
               /\ tasks'[t].verdict \notin {Raised, Null}
               /\ UNCHANGED <<timers, autoSyncInterval>>
               /\ ~syncLock']_vars

\* A timer-triggered sync() has returned a failed verdict, the timer is
\* still armed, and the sync() of a later tick is past the lock check.
C15_Witness ==
  /\ timers # {}
  /\ \E t, u \in Tasks :
       /\ IsSync(t) /\ tasks[t].pc = "done"
       /\ ~tasks[t].verdict.success /\ tasks[t].verdict # Busy
       /\ IsSync(u) /\ Running(u)

\* C16 (as claimed): with pull-on-start and autoSync enabled on a usable
\* repository, no timer is armed and no sync() has started while
\* initialize() has not returned.
C16_PullBeforeTimer ==
  settings.autoSync /\ settings.autoPullOnStart /\ repo.avail /\ repo.isRepo =>
    \A t \in Tasks :
      tasks[t].kind = "init" /\ Running(t) =>
        timers = {} /\ \A u \in Tasks : ~IsSync(u)

\* C17: initialize() never rejects; when it returns after the startup pull,
\* whatever the pull's outcome, and autoSync is enabled, the timer is armed
\* and its handle stored.
C17_InitCompletes ==
  [][\A t \in Tasks :
       tasks[t].kind = "init" /\ Finishes(t) =>
         /\ tasks'[t].verdict # Raised
         /\ tasks[t].pc \notin {"chk_version", "chk_isRepo"} /\ settings.autoSync =>
              autoSyncInterval' # 0 /\ timers' = {autoSyncInterval'}]_vars

\* initialize() has returned after its startup pull went through a catch
\* block with a failed command, and the timer is armed.
C17_Witness ==
  /\ timers # {} /\ settings.autoSync /\ ~unloaded
  /\ \E t \in Tasks :
       /\ tasks[t].kind = "init" /\ tasks[t].pc = "done"
       /\ tasks[t].fault # "none" /\ "diff" \in tasks[t].cmds

\* C18 (as claimed): once dispose() has run, no timer is armed.
C18_DisposedNoTimer == unloaded => timers = {}

Range(seq) == {seq[i] : i \in 1..Len(seq)}

\* C19: in every status that status() returns, clean is true iff staged,
\* modified, untracked and conflicts are all empty.
C19_CleanIffEmpty ==
  parsed.isRepo =>
    (parsed.clean <=> /\ parsed.staged = <<>> /\ parsed.modified = <<>>
                      /\ parsed.untracked = <<>> /\ parsed.conflicts = <<>>)

\* status() has parsed an output whose only file line is an untracked
\* file: nothing staged, modified or in conflict, and not clean.
C19_Witness ==
  /\ parsed.isRepo
  /\ stdout = <<[x |-> "?", y |-> "?", path |-> 1]>>
  /\ parsed.untracked = <<1>> /\ parsed.staged = <<>> /\ ~parsed.clean

\* C20: in every status that status() returns, the path of every UU, AA or
\* DD line is in conflicts, and no path in conflicts is in staged, modified
\* or untracked.
C20_ConflictsFirst ==
  parsed.isRepo =>
    /\ \A i \in 1..Len(stdout) :
         <<stdout[i].x, stdout[i].y>> \in {<<"U", "U">>, <<"A", "A">>, <<"D", "D">>}
           => stdout[i].path \in Range(parsed.conflicts)
    /\ Range(parsed.conflicts) \cap
         (Range(parsed.staged) \cup Range(parsed.modified) \cup Range(parsed.untracked)) = {}

\* status() has parsed an AA line next to a line staged and modified.
C20_Witness ==
  /\ parsed.isRepo
  /\ Len(stdout) = 2
  /\ <<stdout[1].x, stdout[1].y>> = <<"A", "A">>
  /\ <<stdout[2].x, stdout[2].y>> = <<"M", "M">>
  /\ parsed.conflicts = <<1>> /\ parsed.staged = <<2>> /\ parsed.modified = <<2>>

\* The text s begins with pat.
StartsWith(s, pat) == Len(pat) <= Len(s) /\ SubSeq(s, 1, Len(pat)) = pat

\* One of the texts of the first test of parsePushError().
HttpsMarked(s) ==
  \/ Includes(s, AuthenticationFailed)
  \/ Includes(s, Forbidden)
  \/ Includes(s, UnableToAccess)

WriteDenied(s) == Includes(s, PermissionTo) /\ Includes(s, Denied)

\* C22: an error text that reports an unresolved host and no other cause is
\* given the network message, and one that reports a refused write and no
\* other cause the permission message, the HTTPS forms with "fatal: unable to
\* access" or "403" included.
C22_OwnMessage ==
  /\ pushError # NoPushError
  /\ ~Includes(stderr, AuthenticationFailed)
  /\ ~Includes(stderr, PublicKeyDenied)
  =>
  /\ Includes(stderr, CouldNotResolveHost) /\ ~WriteDenied(stderr)
       => pushError.kind = "network"
  /\ WriteDenied(stderr) /\ ~Includes(stderr, CouldNotResolveHost)
       => pushError.kind = "no push permission"

\* The await points of push() and pushWithUpstream().
PushPcs == {"ps_branch", "ps_remote", "ps_push", "pu_branch", "pu_remote", "pu_push"}
NoRemote == Verdict(FALSE, "no remote", 0, 0, 0)

\* C23: when the repository has no remote, push() and pushWithUpstream()
\* return the 'no remote' failure once the remote query has resolved and the
\* push command is not issued; and whatever the backend does, neither of the
\* two raises: the caller gets a result.
C23_NoRemoteNoPush ==
  [][\A t \in Tasks :
       tasks[t].kind # "none" /\ tasks[t].pc \in PushPcs /\ Steps(t) =>
         /\ tasks[t].pc \in {"ps_remote", "pu_remote"} /\ ~repo.remote =>
              /\ tasks'[t].pc = "done"
              /\ tasks'[t].verdict = NoRemote
              /\ tasks'[t].cmds \cap {"push", "push -u"} = {}
         /\ tasks'[t].pc \in PushPcs \cup {"done"}
         /\ tasks'[t].pc = "done" => tasks'[t].verdict # Raised]_vars

C23_Witness ==
  \E t \in Tasks :
    /\ tasks[t].pc = "done" /\ tasks[t].verdict = NoRemote
    /\ ~repo.remote
    /\ tasks[t].cmds \cap {"add", "commit"} # {}

\* C24: getRemoteName() returns "origin" when a remote of that name is listed,
\* at whatever line; otherwise the first remote listed; and null when no
\* remote is listed or the listing failed.
C24_OriginFirst ==
  remoteName # Unset =>
    LET listed == Range(remotes.stdout) \ {""}
    IN CASE remotes.code # 0 -> remoteName = "null"
         [] remotes.code = 0 /\ "origin" \in listed -> remoteName = "origin"
         [] remotes.code = 0 /\ "origin" \notin listed /\ listed # {} ->
              \E i \in 1..Len(remotes.stdout) :
                /\ remotes.stdout[i] = remoteName /\ remoteName # ""
                /\ \A j \in 1..(i - 1) : remotes.stdout[j] = ""
         [] OTHER -> remoteName = "null"

C24_Witness ==
  /\ remoteName = "origin"
  /\ Len(remotes.stdout) > 1
  /\ remotes.stdout[1] \notin {"origin", ""}

\* The results push() and pushWithUpstream() hand to commitAndPush().
PushVerdicts ==
  {Verdict(TRUE, "pushed", 0, 1, 0), NoRemote, Verdict(FALSE, "push error", 0, 0, 0)}

\* C25: a commit that fails with 'nothing to commit' (the tree is clean and
\* nothing else went wrong) is a successful no-op: commitAndPush() goes on to
\* the upstream query and from there to push() or pushWithUpstream(), whose
\* result is the verdict of the commit-and-push command; a commit that fails
\* otherwise ends commitAndPush() with a failure.
C25_NothingToCommit ==
  [][\A t \in Tasks :
       tasks[t].kind # "none" /\ Steps(t) =>
         /\ tasks[t].pc = "cp_commit" /\ StatusClean =>
              IF faults' = faults /\ CanSucceed("commit")
                THEN tasks'[t].pc = "cp_up_branch" /\ repo' = repo
                ELSE tasks'[t].pc = "done" /\ ~tasks'[t].verdict.success
         /\ tasks[t].pc \in {"cp_up_branch", "cp_up_upstream"} =>
              tasks'[t].pc \in {"cp_up_upstream", "ps_branch", "pu_branch"}
         /\ tasks[t].pc \in PushPcs =>
              /\ tasks'[t].pc \in PushPcs \cup {"done"}
              /\ tasks'[t].pc = "done" /\ tasks[t].kind = "push" =>
                   /\ tasks'[t].verdict \in PushVerdicts
                   /\ tasks'[t].verdict.success =
                        (tasks[t].pc \in {"ps_push", "pu_push"} /\ faults' = faults
                         /\ CanSucceed("push") /\ repo.remote)]_vars

C25_Witness ==
  \E t \in Tasks :
    /\ tasks[t].kind = "push" /\ tasks[t].pc = "done"
    /\ faults = 0 /\ tasks[t].fault = "soft" /\ CanSucceed("commit")
    /\ {"commit", "push"} \subseteq tasks[t].cmds
    /\ tasks[t].verdict = Verdict(TRUE, "pushed", 0, 1, 0)

\* C26: the engine never resolves or aborts a conflict: a working tree in
\* conflict stays in conflict under every step of the engine, and a sync()
\* that probes a tree in conflict ends there with the conflict verdict.
C26_ConflictStays ==
  [][/\ repo.conflict => repo'.conflict
     /\ \A t \in Tasks :
          At(t, "sync_hasConflicts") /\ Steps(t) /\ repo.conflict =>
            /\ tasks'[t].pc = "done"
            /\ tasks'[t].verdict.msg =
                 "Merge conflicts detected. Please resolve them manually."]_vars

\* The phases that end a sync (sync-manager.ts 99-140).
Terminal == {"success", "error", "conflict"}

\* C27: the statuses a sync() emits after it acquired the lock are in the
\* order of the state machine: 'pulling' comes before any 'pushing', no
\* 'pulling' or 'pushing' comes after 'success', 'error' or 'conflict', and
\* when the sync has returned, the last status is one of these three and
\* agrees with the verdict.
C27_EventOrder ==
  \A t \in Tasks :
    IsSync(t) /\ tasks[t].verdict # Busy =>
      LET e == tasks[t].events
      IN /\ \A i \in 1..Len(e) :
              e[i] = "pushing" => \E j \in 1..(i - 1) : e[j] = "pulling"
         /\ \A i \in 1..Len(e) : \A j \in (i + 1)..Len(e) :
              e[i] \in Terminal => e[j] \in Terminal
         /\ tasks[t].pc = "done" =>
              /\ e # <<>> /\ LastEvent(t) \in Terminal
              /\ (LastEvent(t) = "success") = tasks[t].verdict.success

\* C28: while the plugin is loaded and neither initialize() nor a settings
\* handler is in progress, the timer handle is set iff settings.autoSync is
\* on, whatever initialize() found.
C28_HandleIffAutoSync ==
  /\ loaded /\ ~unloaded /\ ~saving
  /\ \A t \in Tasks : ~(tasks[t].kind = "init" /\ Running(t))
  => (autoSyncInterval # 0) = settings.autoSync

\* C29: when a sync, a pull-only or a commit-and-push returns its verdict,
\* that verdict is the last result, and the last result changes only when
\* such an operation returns.
C29_VerdictRetained ==
  [][/\ \A t \in Tasks :
          /\ Finishes(t) /\ tasks[t].kind \in {"sync", "pull", "push"}
          /\ tasks'[t].verdict # Raised
          => lastSyncResult' = tasks'[t].verdict
     /\ lastSyncResult' # lastSyncResult =>
          \E t \in Tasks : Finishes(t) /\ tasks[t].kind \in {"sync", "pull", "push"}]_vars

\* The recognized tokens and what each stands for.
Tokens == {DateToken, DateTimeToken, TimestampToken, IsoDateToken, TimeToken}
ValueOf(tok) ==
  CASE tok = DateToken -> <<"2026-11-02", " ", "10:00:00">>
    [] tok = DateTimeToken -> <<"2026-11-02", " ", "10:00:00">>
    [] tok = TimestampToken -> <<"1793613600000">>
    [] tok = IsoDateToken -> <<"2026-11-02", "T", "10:00:00", ".", "000Z">>
    [] tok = TimeToken -> <<"10:00:00">>

\* The template read once from the left: a token gives its value, any other
\* piece stays as it is.
RECURSIVE Expand(_)
Expand(s) ==
  IF s = <<>> THEN <<>>
  ELSE IF \E tok \in Tokens : StartsWith(s, tok)
    THEN LET tok == CHOOSE k \in Tokens : StartsWith(s, k)
         IN ValueOf(tok) \o Expand(SubSeq(s, Len(tok) + 1, Len(s)))
    ELSE <<s[1]>> \o Expand(Tail(s))

\* C30: the message is the template with every {{date}} replaced by the
\* formatted instant (and every other token by its value), the text outside
\* the tokens unchanged and in its order; a template without a token is
\* returned as it is.
C30_TokensReplaced ==
  commitMessage # <<Unset>> =>
    /\ commitMessage = Expand(template)
    /\ ~Includes(commitMessage, DateToken)
    /\ (\A tok \in Tokens : ~Includes(template, tok)) => commitMessage = template

C30_Witness ==
  /\ commitMessage # <<Unset>>
  /\ template = DateToken \o DateToken
  /\ commitMessage = ValueOf(DateToken) \o ValueOf(DateToken)

\* C31: commitAndPush() on a tree that is not clean stages, then commits,
\* then calls one of the two push variants, pushWithUpstream() iff the branch
\* has no upstream; when add or commit fails otherwise than with 'nothing to
\* commit', it returns a failure with pushed = 0 and no push command issued.
C31_StageCommitPush ==
  [][\A t \in Tasks :
       tasks[t].kind # "none" /\ Steps(t) =>
         /\ tasks[t].pc = "cp_status" /\ ~StatusClean /\ tasks'[t].pc # "done" =>
              tasks'[t].pc = "cp_add"
         /\ tasks[t].pc = "cp_add" /\ tasks'[t].pc # "done" =>
              tasks'[t].pc = "cp_commit"
         /\ tasks[t].pc = "cp_commit" /\ tasks'[t].pc # "done" =>
              tasks'[t].pc = "cp_up_branch"
         /\ tasks[t].pc \in {"cp_up_branch", "cp_up_upstream"} =>
              /\ tasks'[t].pc \in {"cp_up_upstream", "ps_branch", "pu_branch"}
              /\ tasks'[t].pc = "ps_branch" => repo.upstream
              /\ tasks'[t].pc = "pu_branch" => ~repo.upstream
         /\ tasks[t].pc \in {"cp_add", "cp_commit"} /\ tasks'[t].pc = "done" =>
              /\ ~tasks'[t].verdict.success /\ tasks'[t].verdict.pushed = 0
              /\ tasks'[t].cmds \cap {"push", "push -u"} = {}
         /\ ~({"push", "push -u"} \subseteq tasks'[t].cmds)]_vars

\* C32: when status() reports a clean tree that is ahead, commitAndPush()
\* calls push() at once, issues neither add nor commit, and the result of
\* push() is its verdict.
C32_CleanAheadPushes ==
  [][\A t \in Tasks :
       tasks[t].kind # "none" /\ Steps(t) =>
         /\ /\ tasks[t].pc = "cp_status" /\ StatusClean /\ StatusAhead > 0
            /\ faults' = faults /\ CanSucceed("status")
            => /\ tasks'[t].pc = "ps_branch"
               /\ tasks'[t].cmds \cap {"add", "commit"} = {}
         /\ tasks[t].pc \in PushPcs /\ tasks[t].cmds \cap {"add", "commit"} = {} =>
              /\ tasks'[t].cmds \cap {"add", "commit", "push -u"} = {}
              /\ tasks'[t].pc = "done" /\ tasks[t].kind = "push" =>
                   /\ tasks'[t].verdict \in PushVerdicts
                   /\ tasks'[t].verdict.success =
                        (tasks[t].pc = "ps_push" /\ faults' = faults
                         /\ CanSucceed("push") /\ repo.remote)]_vars

C32_Witness ==
  \E t \in Tasks :
    /\ tasks[t].kind = "push" /\ tasks[t].pc = "done"
    /\ tasks[t].cmds = {"status", "rev-parse HEAD", "remote", "push"}
    /\ tasks[t].verdict = Verdict(TRUE, "pushed", 0, 1, 0)

\* C33: in pull(), when status() reports staged or modified files the stash
\* push is issued next and the pull command only after it has succeeded (a
\* failed stash push ends the call without a pull command); when it reports
\* neither, the pull command is issued without a stash push.
C33_StashBeforePull ==
  [][\A t \in Tasks :
       tasks[t].kind # "none" /\ Steps(t) =>
         /\ tasks[t].pc = "pl_status" /\ faults' = faults /\ CanSucceed("status") =>
              IF repo.tree # "clean"
                THEN tasks'[t].pc = "pl_stash" /\ "pull" \notin tasks'[t].cmds
                ELSE tasks'[t].pc = "pl_pull" /\ "stash push" \notin tasks'[t].cmds
         /\ tasks[t].pc = "pl_stash" =>
              IF faults' = faults /\ CanSucceed("stash")
                THEN tasks'[t].pc = "pl_pull" /\ repo'.stash = repo.stash + 1
                ELSE tasks'[t].pc # "pl_pull" /\ "pull" \notin tasks'[t].cmds
                     /\ repo'.stash = repo.stash]_vars

C33_Witness ==
  \E t \in Tasks :
    /\ tasks[t].pc = "pl_pull" /\ "stash push" \in tasks[t].cmds
    /\ repo.stash > 0 /\ repo.tree = "clean"

\* C34: in the catch block of pullOnly(), a conflict probe that finds
\* unmerged paths leads to the result success = false with the conflicted
\* files of a fresh status query and no error raised; a probe that finds none
\* re-raises the error; and a pull-only that returns 'Merge conflicts
\* detected' carries at least one conflicted file.
C34_ConflictsReported ==
  [][\A t \in Tasks :
       tasks[t].kind = "pull" /\ Steps(t) =>
         /\ tasks[t].pc = "po_catch_hasConflicts" =>
              IF HasConflicts(faults' = faults /\ CanSucceed("diff"))
                THEN tasks'[t].pc = "po_catch_status"
                ELSE tasks'[t].pc = "done" /\ tasks'[t].verdict = Raised
         /\ tasks[t].pc = "po_catch_status" =>
              /\ tasks'[t].pc = "done" /\ tasks'[t].verdict # Raised
              /\ ~tasks'[t].verdict.success
         /\ tasks'[t].pc = "done" /\ tasks'[t].verdict.msg = "Merge conflicts detected" =>
              tasks'[t].verdict.conflicts > 0]_vars

\* A file line as the status command prints it for an entry that is not
\* ignored: '?' stands in both columns or in none.
IsEntryLine(l) == (l.x = "?") = (l.y = "?")

\* C35: status() puts every file line that is not a conflict in a list by its
\* two codes: with an index code other than ' ' and '?' in staged, with a
\* work-tree code other than ' ' and '?' in modified, with '??' in untracked
\* and nowhere else; each such line is in one of the three lists at least,
\* and an output with a file line is not reported clean.
C35_Exhaustive ==
  parsed.isRepo /\ (\A i \in 1..Len(stdout) : IsEntryLine(stdout[i])) =>
    /\ \A i \in 1..Len(stdout) :
         LET l == stdout[i]
             conflict == l.x = "U" \/ l.y = "U" \/ <<l.x, l.y>> \in {<<"A", "A">>, <<"D", "D">>}
         IN ~conflict =>
              /\ l.x \notin {" ", "?"} => l.path \in Range(parsed.staged)
              /\ l.y \notin {" ", "?"} => l.path \in Range(parsed.modified)
              /\ l.x = "?" /\ l.y = "?" =>
                   /\ l.path \in Range(parsed.untracked)
                   /\ l.path \notin Range(parsed.staged) \cup Range(parsed.modified)
                                      \cup Range(parsed.conflicts)
              /\ l.path \in Range(parsed.staged) \cup Range(parsed.modified)
                              \cup Range(parsed.untracked)
    /\ stdout # <<>> => ~parsed.clean

C35_Witness ==
  /\ parsed.isRepo /\ Len(stdout) = 2
  /\ <<stdout[1].x, stdout[1].y>> = <<"R", "M">>
  /\ <<stdout[2].x, stdout[2].y>> = <<"?", "?">>
  /\ parsed.staged = <<1>> /\ parsed.modified = <<1>> /\ parsed.untracked = <<2>>

\* C36: the verdict of a push command that succeeded, and the success verdict
\* of the sync built from it, count in 'pushed' the commits the branch was
\* ahead by when it was pushed; the success verdict of a sync counts in
\* 'pulled' the files its pull listed.
C36_Counters ==
  [][\A t \in Tasks :
       /\ tasks[t].kind \in {"sync", "push"} /\ tasks[t].pc \in {"ps_push", "pu_push"}
       /\ Steps(t) /\ tasks'[t].verdict.success
       => /\ tasks'[t].verdict.pushed = repo.ahead
          /\ IsSync(t) => tasks'[t].verdict.pulled = tasks[t].files]_vars

\* C37: when every backend command returns or fails in the end, a sync()
\* that holds the lock returns its verdict and the lock becomes free again,
\* so that a later tick finds it free.
C37_LockFreed ==
  /\ syncLock ~> ~syncLock
  /\ \A t \in Tasks :
       (IsSync(t) /\ Running(t)) ~> (IsSync(t) /\ tasks[t].pc = "done" /\ ~syncLock)

C37_Witness ==
  \E t \in Tasks :
    /\ IsSync(t) /\ tasks[t].pc = "done" /\ ~syncLock
    /\ tasks[t].verdict # Busy /\ "pull" \in tasks[t].cmds
    /\ ops = MaxOps

\* C38: an invocation whose pull() has issued 'stash pop' has issued 'stash
\* push' before it.
C38_PopOnlyAfterPush ==
  \A t \in Tasks :
    "stash pop" \in tasks[t].cmds => "stash push" \in tasks[t].cmds

\* C39: in a repository without remote, with a working backend and no
\* conflict, a sync() in which no command failed by accident returns success
\* and has issued neither fetch, pull nor push, whether it found changes to
\* commit or not.
C39_LocalOnly ==
  [][\A t \in Tasks :
       /\ IsSync(t) /\ Finishes(t)
       /\ ~repo.remote /\ repo.avail /\ repo.isRepo /\ ~repo.conflict /\ faults' = 0
       => /\ tasks'[t].verdict.success
          /\ tasks'[t].cmds \cap {"fetch", "pull", "push", "push -u"} = {}]_vars

\* C40: in a sync(), a fetch or a status query of pullOnly() that fails
\* leads to the conflict probe of its catch block; when the probe finds no
\* conflict, the sync ends there with the 'error' status and a failed
\* verdict, has issued neither add, commit nor push, leaves the repository
\* and lastSyncTime as they were, and frees the lock.
C40_FetchErrorStops ==
  [][\A t \in Tasks :
       IsSync(t) /\ Steps(t) =>
         /\ /\ tasks[t].pc \in {"po_fetch", "po_status"}
            /\ faults' # faults \/ ~CanSucceed("fetch")
                 \/ (tasks[t].pc = "po_fetch" /\ ~repo.remote)
            => tasks'[t].pc = "po_catch_hasConflicts"
         /\ /\ tasks[t].pc = "po_catch_hasConflicts" /\ ~repo.conflict
            /\ "rev-parse HEAD" \notin tasks[t].cmds
            => /\ tasks'[t].pc = "done"
               /\ ~tasks'[t].verdict.success
               /\ tasks'[t].events[Len(tasks'[t].events)] = "error"
               /\ tasks'[t].cmds \cap PushCmds = {}
               /\ repo' = repo
               /\ lastSyncTime' = lastSyncTime
               /\ ~syncLock']_vars

C40_Witness ==
  \E t \in Tasks :
    /\ IsSync(t) /\ tasks[t].pc = "done" /\ ~syncLock
    /\ tasks[t].cmds \cap {"fetch", "diff"} = {"fetch", "diff"}
    /\ "status" \notin tasks[t].cmds
    /\ LastEvent(t) = "error" /\ ~tasks[t].verdict.success
    /\ repo.tree = "modified" /\ ~repo.conflict /\ lastSyncTime = 0

====
